---- MODULE Spec2Model ----
(***************************************************************************)
(* Model of cmd/nfs-subdir-external-provisioner/provisioner.go: the        *)
(* Provision and Delete operations of nfsProvisioner over a directory      *)
(* tree.  Go strings are sequences of one-character strings, so that       *)
(* filepath.Join, filepath.Clean, filepath.Base, strings.Replace, the      *)
(* strconv parsers and the ${.PVC...} template regexp are computed         *)
(* character by character as the Go code computes them.                    *)
(***************************************************************************)
EXTENDS Integers, Sequences, FiniteSets, TLC

(***************************************************************************)
(* Go standard library: strings                                            *)
(***************************************************************************)

\* s[i..] starts with t (1-based i)
HasPrefixAt(s, t, i) ==
  /\ i >= 1
  /\ i + Len(t) - 1 <= Len(s)
  /\ \A k \in 1..Len(t) : s[i + k - 1] = t[k]

\* least index >= from at which t occurs in s, 0 when there is none
IndexFrom(s, t, from) ==
  LET hits == { i \in from..(Len(s) + 1) : HasPrefixAt(s, t, i) }
  IN  IF hits = {} THEN 0 ELSE CHOOSE i \in hits : \A j \in hits : i <= j

\* strings.Index, 1-based, 0 for "not found"
Index(s, t) == IndexFrom(s, t, 1)

\* s[from..] (1-based, inclusive), empty when from is past the end
Tail_(s, from) == IF from > Len(s) THEN <<>> ELSE SubSeq(s, from, Len(s))

\* strings.Replace(s, old, new, 1)
Replace1(s, old, new) ==
  LET i == Index(s, old)
  IN  IF old = new \/ i = 0 THEN s
      ELSE SubSeq(s, 1, i - 1) \o new \o Tail_(s, i + Len(old))

RECURSIVE ReplaceAll(_, _, _)
\* strings.ReplaceAll(s, old, new): every non-overlapping occurrence, left to right
ReplaceAll(s, old, new) ==
  IF old = <<>>
  THEN IF s = <<>> THEN new ELSE new \o <<Head(s)>> \o ReplaceAll(Tail(s), old, new)
  ELSE LET i == Index(s, old)
       IN  IF i = 0 THEN s
           ELSE SubSeq(s, 1, i - 1) \o new \o ReplaceAll(Tail_(s, i + Len(old)), old, new)

RECURSIVE StringsJoin(_, _)
\* strings.Join(elems, sep)
StringsJoin(elems, sep) ==
  IF elems = <<>> THEN <<>>
  ELSE IF Len(elems) = 1 THEN elems[1]
  ELSE elems[1] \o sep \o StringsJoin(Tail(elems), sep)

RECURSIVE Split(_, _)
\* strings.Split(s, c) for a one-character separator c
Split(s, c) ==
  LET i == Index(s, <<c>>)
  IN  IF i = 0 THEN <<s>>
      ELSE <<SubSeq(s, 1, i - 1)>> \o Split(Tail_(s, i + 1), c)

(***************************************************************************)
(* Go standard library: path/filepath (unix)                               *)
(***************************************************************************)

Sep == "/"
Dot == <<".">>
DotDot == <<".", ".">>

IsRooted(path) == Len(path) > 0 /\ path[1] = Sep

RECURSIVE CleanElems(_, _, _)
\* the element loop of filepath.Clean: out is the list of elements kept so far
CleanElems(elems, out, rooted) ==
  IF elems = <<>> THEN out
  ELSE LET e == Head(elems)
           rest == Tail(elems)
       IN  IF e = <<>> \/ e = Dot THEN CleanElems(rest, out, rooted)
           ELSE IF e = DotDot
           THEN IF Len(out) > 0 /\ out[Len(out)] # DotDot
                THEN CleanElems(rest, SubSeq(out, 1, Len(out) - 1), rooted)
                ELSE IF rooted THEN CleanElems(rest, out, rooted)
                ELSE CleanElems(rest, Append(out, e), rooted)
           ELSE CleanElems(rest, Append(out, e), rooted)

\* filepath.Clean
Clean(path) ==
  IF path = <<>> THEN Dot
  ELSE LET rooted == IsRooted(path)
           kept == CleanElems(Split(path, Sep), <<>>, rooted)
           body == StringsJoin(kept, <<Sep>>)
       IN  IF rooted THEN <<Sep>> \o body
           ELSE IF body = <<>> THEN Dot ELSE body

\* filepath.Join(a, b)
Join(a, b) ==
  IF a # <<>> THEN Clean(a \o <<Sep>> \o b)
  ELSE IF b # <<>> THEN Clean(b)
  ELSE <<>>

RECURSIVE StripTrailingSep(_)
StripTrailingSep(path) ==
  IF Len(path) > 0 /\ path[Len(path)] = Sep
  THEN StripTrailingSep(SubSeq(path, 1, Len(path) - 1))
  ELSE path

RECURSIVE LastElem(_)
\* the part of path after its last separator
LastElem(path) ==
  LET i == Index(path, <<Sep>>)
  IN  IF i = 0 THEN path ELSE LastElem(Tail_(path, i + 1))

\* filepath.Base
Base(path) ==
  IF path = <<>> THEN Dot
  ELSE LET p == LastElem(StripTrailingSep(path))
       IN  IF p = <<>> THEN <<Sep>> ELSE p

(***************************************************************************)
(* Go standard library: strconv                                            *)
(***************************************************************************)

Digits == <<"0", "1", "2", "3", "4", "5", "6", "7", "8", "9">>

\* value of a digit character, -1 for any other character
DigitVal(c) ==
  IF \E d \in 1..10 : Digits[d] = c
  THEN (CHOOSE d \in 1..10 : Digits[d] = c) - 1
  ELSE -1

RECURSIVE ParseUint(_, _, _)
\* strconv.ParseUint's digit loop: acc is the value read so far; -1 is a syntax error
ParseUint(s, base, acc) ==
  IF s = <<>> THEN acc
  ELSE LET d == DigitVal(Head(s))
       IN  IF d < 0 \/ d >= base THEN -1
           ELSE ParseUint(Tail(s), base, acc * base + d)

\* strconv.ParseInt(s, base, 64) and strconv.Atoi(s) (base 10): an optional
\* sign, then at least one digit of the base.  The numerals the model feeds
\* it are far below 2^63, so the range error of an overflowing numeral does
\* not arise.
ParseInt(s, base) ==
  IF s = <<>> THEN [err |-> TRUE, val |-> 0]
  ELSE LET neg == Head(s) = "-"
           signed == Head(s) = "-" \/ Head(s) = "+"
           digits == IF signed THEN Tail(s) ELSE s
           un == IF digits = <<>> THEN -1 ELSE ParseUint(digits, base, 0)
       IN  IF un < 0 THEN [err |-> TRUE, val |-> 0]
           ELSE [err |-> FALSE, val |-> IF neg THEN 0 - un ELSE un]

TrueStrings ==
  { <<"1">>, <<"t">>, <<"T">>, <<"T","R","U","E">>, <<"t","r","u","e">>, <<"T","r","u","e">> }

FalseStrings ==
  { <<"0">>, <<"f">>, <<"F">>, <<"F","A","L","S","E">>, <<"f","a","l","s","e">>,
    <<"F","a","l","s","e">> }

\* strconv.ParseBool
ParseBool(s) ==
  IF s \in TrueStrings THEN [err |-> FALSE, val |-> TRUE]
  ELSE IF s \in FalseStrings THEN [err |-> FALSE, val |-> FALSE]
  ELSE [err |-> TRUE, val |-> FALSE]

(***************************************************************************)
(* provisioner.go: constants, template resolution, parameter validation    *)
(***************************************************************************)

\* Go maps from string to string: functions over a set of strings; a missing
\* key reads as the empty string
MapGet(m, k) == IF k \in DOMAIN m THEN m[k] ELSE <<>>
MapHas(m, k) == k \in DOMAIN m
Map1(k, v) == [x \in {k} |-> v]
EmptyMap == <<>>

mountPath ==
  <<"/","p","e","r","s","i","s","t","e","n","t","v","o","l","u","m","e","s">>

annotationPrefix == <<"k","8","s","-","s","i","g","s",".","i","o">>

ModeKey ==
  annotationPrefix \o <<"/","n","f","s","-","d","i","r","e","c","t","o","r","y","-","m","o","d","e">>
UidKey ==
  annotationPrefix \o <<"/","n","f","s","-","d","i","r","e","c","t","o","r","y","-","u","i","d">>
GidKey ==
  annotationPrefix \o <<"/","n","f","s","-","d","i","r","e","c","t","o","r","y","-","g","i","d">>

PathPatternKey == <<"p","a","t","h","P","a","t","t","e","r","n">>
OnDeleteKey == <<"o","n","D","e","l","e","t","e">>
ArchiveOnDeleteKey == <<"a","r","c","h","i","v","e","O","n","D","e","l","e","t","e">>
DeleteValue == <<"d","e","l","e","t","e">>
RetainValue == <<"r","e","t","a","i","n">>
ArchivedPrefix == <<"a","r","c","h","i","v","e","d","-">>

NameKey == <<"n","a","m","e">>
NamespaceKey == <<"n","a","m","e","s","p","a","c","e">>
LabelsWord == <<"l","a","b","e","l","s">>
AnnotationsWord == <<"a","n","n","o","t","a","t","i","o","n","s">>

\* the literal head of the regexp  \${\.PVC\.((labels|annotations)\.(.*?)|.*?)}
PlaceholderOpen == <<"$","{",".","P","V","C",".">>
PlaceholderClose == <<"}">>

\* the submatches r[0..3] of one match: whole is r[0], inner is the text
\* between "${.PVC." and the first "}".  The first alternative is preferred
\* when inner starts with "labels." or "annotations.".
Submatch(whole, inner) ==
  IF HasPrefixAt(inner, LabelsWord \o Dot, 1)
  THEN [r0 |-> whole, r1 |-> inner, r2 |-> LabelsWord,
        r3 |-> Tail_(inner, Len(LabelsWord) + 2)]
  ELSE IF HasPrefixAt(inner, AnnotationsWord \o Dot, 1)
  THEN [r0 |-> whole, r1 |-> inner, r2 |-> AnnotationsWord,
        r3 |-> Tail_(inner, Len(AnnotationsWord) + 2)]
  ELSE [r0 |-> whole, r1 |-> inner, r2 |-> <<>>, r3 |-> <<>>]

RECURSIVE FindAllStringSubmatch(_, _)
\* pattern.FindAllStringSubmatch(str, -1), scanning from index from: leftmost
\* non-overlapping matches; both lazy alternatives end at the first "}"
FindAllStringSubmatch(str, from) ==
  LET i == IndexFrom(str, PlaceholderOpen, from)
      j == IF i = 0 THEN 0 ELSE IndexFrom(str, PlaceholderClose, i + Len(PlaceholderOpen))
  IN  IF i = 0 \/ j = 0 THEN <<>>
      ELSE <<Submatch(SubSeq(str, i, j), SubSeq(str, i + Len(PlaceholderOpen), j - 1))>>
             \o FindAllStringSubmatch(str, j + 1)

RECURSIVE ReplaceMatches(_, _, _)
\* the loop of stringParser: one strings.ReplaceAll per match, on the string
\* as rewritten so far
ReplaceMatches(meta, str, result) ==
  IF result = <<>> THEN str
  ELSE LET r == Head(result)
           value == IF r.r2 = LabelsWord THEN MapGet(meta.labels, r.r3)
                    ELSE IF r.r2 = AnnotationsWord THEN MapGet(meta.annotations, r.r3)
                    ELSE MapGet(meta.data, r.r1)
       IN  ReplaceMatches(meta, ReplaceAll(str, r.r0, value), Tail(result))

\* pvcMetadata.stringParser
stringParser(meta, str) == ReplaceMatches(meta, str, FindAllStringSubmatch(str, 1))

MaxMode == 511     \* 0o777
MaxId == 65535

\* a faulty variant of getModeFromString: the range check is missing
getModeFromString_NoRange(mode) ==
  IF mode = <<>> THEN [err |-> FALSE, val |-> MaxMode]
  ELSE LET r == ParseInt(mode, 8)
       IN  IF r.err THEN [err |-> TRUE, val |-> 0]
           ELSE [err |-> FALSE, val |-> r.val]

\* getModeFromString: [err, val]
getModeFromString(mode) ==
  IF mode = <<>> THEN [err |-> FALSE, val |-> MaxMode]
  ELSE LET r == ParseInt(mode, 8)
       IN  IF r.err THEN [err |-> TRUE, val |-> 0]
           ELSE IF r.val < 0 \/ r.val > MaxMode THEN [err |-> TRUE, val |-> 0]
           ELSE [err |-> FALSE, val |-> r.val]

\* getIdFromString: [err, val]
getIdFromString(id) ==
  IF id = <<>> THEN [err |-> FALSE, val |-> 0]
  ELSE LET r == ParseInt(id, 10)
       IN  IF r.err THEN [err |-> TRUE, val |-> 0]
           ELSE IF r.val < 0 \/ r.val > MaxId THEN [err |-> TRUE, val |-> 0]
           ELSE [err |-> FALSE, val |-> r.val]

(***************************************************************************)
(* The directory tree: a function from the clean absolute path of every    *)
(* existing directory to its attributes.  ino names the call that created  *)
(* the directory, so that a directory which was moved can be told from one *)
(* that was created anew.                                                  *)
(***************************************************************************)

Root == <<Sep>>

\* path is dir or lies beneath it (both clean and absolute)
IsUnder(dir, path) ==
  \/ path = dir
  \/ dir = Root /\ IsRooted(path)
  \/ HasPrefixAt(path, dir \o <<Sep>>, 1)

\* the elements of an absolute path
Elems(path) == CleanElems(Split(path, Sep), <<>>, TRUE)

PathOf(elems) == <<Sep>> \o StringsJoin(elems, <<Sep>>)

\* path and every directory above it
AncestorsOrSelf(path) ==
  LET e == Elems(path) IN { PathOf(SubSeq(e, 1, k)) : k \in 0..Len(e) }

\* os.Stat(path) succeeds
Exists(tree, path) == Clean(path) \in DOMAIN tree

RECURSIVE AndNot(_, _)
\* a &^ b on non-negative integers
AndNot(a, b) ==
  IF a = 0 THEN 0
  ELSE (IF a % 2 = 1 /\ b % 2 = 0 THEN 1 ELSE 0) + 2 * AndNot(a \div 2, b \div 2)

RootId == 0

\* os.MkdirAll(path, perm): an existing directory is left alone; otherwise
\* every missing directory on the way is made with perm less the umask,
\* owned by the process (root)
MkdirAll(tree, path, perm, mask, ino) ==
  LET target == Clean(path)
      made == { q \in AncestorsOrSelf(target) : q \notin DOMAIN tree }
      attr == [mode |-> AndNot(perm, mask), uid |-> RootId, gid |-> RootId, ino |-> ino]
  IN  [q \in DOMAIN tree \cup made |-> IF q \in made THEN attr ELSE tree[q]]

\* a faulty variant of Chmod: the mode is left as MkdirAll made it
Chmod_Skipped(tree, path, mode) == tree

\* os.Chmod(path, mode) on an existing directory
Chmod(tree, path, mode) == [tree EXCEPT ![Clean(path)].mode = mode]

\* os.Chown(path, uid, gid) on an existing directory
Chown(tree, path, uid, gid) == [tree EXCEPT ![Clean(path)].uid = uid, ![Clean(path)].gid = gid]

\* a directory that cannot be unlinked: the mount point of the export and
\* what lies above it
Busy(q) == IsUnder(q, mountPath)

\* os.RemoveAll(path): [fs, err].  Removes everything it can; a missing path
\* is no error
RemoveAll(tree, path) ==
  LET target == Clean(path)
      under == { q \in DOMAIN tree : IsUnder(target, q) }
      gone == { q \in under : ~Busy(q) }
  IN  [fs |-> [q \in DOMAIN tree \ gone |-> tree[q]],
       err |-> IF under # gone THEN "EBUSY" ELSE ""]

\* the file system a path lives on: the export mounted at mountPath, or the
\* process's own root file system
OnExport(q) == IsUnder(mountPath, q)

\* os.Rename(oldpath, newpath) for directories: [fs, err].  Go refuses with
\* EEXIST when newpath is an existing directory; the system call refuses a
\* missing source, a mount point, a move into the source's own subtree and
\* a move between file systems.
Rename(tree, oldpath, newpath) ==
  LET old == Clean(oldpath)
      new == Clean(newpath)
      err == IF new \in DOMAIN tree
             THEN (IF old \notin DOMAIN tree THEN "ENOENT" ELSE "EEXIST")
             ELSE IF old \notin DOMAIN tree THEN "ENOENT"
             ELSE IF Busy(old) THEN "EBUSY"
             ELSE IF IsUnder(old, new) THEN "EINVAL"
             ELSE IF \E a \in AncestorsOrSelf(new) \ {new} : a \notin DOMAIN tree THEN "ENOENT"
             ELSE IF OnExport(old) # OnExport(new) THEN "EXDEV"
             ELSE ""
      moved == { q \in DOMAIN tree : IsUnder(old, q) }
      dest(q) == new \o Tail_(q, Len(old) + 1)
      kept == DOMAIN tree \ moved
  IN  IF err # "" THEN [fs |-> tree, err |-> err]
      ELSE [fs |-> [q \in kept \cup { dest(m) : m \in moved } |->
                      IF q \in kept THEN tree[q]
                      ELSE tree[CHOOSE m \in moved : dest(m) = q]],
            err |-> ""]

(***************************************************************************)
(* State                                                                   *)
(***************************************************************************)

VARIABLES
  p,       \* the nfsProvisioner built by main: client, server, path, defaultMode, defaultUid, defaultGid
  umask,   \* the file mode creation mask of the process
  fs,      \* the directory tree seen by the process
  pvs,     \* the volumes returned by Provision, by name, as the cluster keeps them
  last     \* the last call: its inputs, its result and the tree before it

vars == <<p, umask, fs, pvs, last>>

(***************************************************************************)
(* main: the provisioner is built from the environment                     *)
(***************************************************************************)

\* main exits through glog.Fatal: a variable that must be set is empty, or
\* a default does not parse
mainFatal(env) ==
  \/ env.NFS_SERVER = <<>>
  \/ env.NFS_PATH = <<>>
  \/ getModeFromString(env.NFS_DEFAULT_MODE).err
  \/ getIdFromString(env.NFS_DEFAULT_UID).err
  \/ getIdFromString(env.NFS_DEFAULT_GID).err

\* the nfsProvisioner main builds from environment env
main(env) ==
  [client |-> TRUE, server |-> env.NFS_SERVER, path |-> env.NFS_PATH,
   defaultMode |-> getModeFromString(env.NFS_DEFAULT_MODE).val,
   defaultUid |-> getIdFromString(env.NFS_DEFAULT_UID).val,
   defaultGid |-> getIdFromString(env.NFS_DEFAULT_GID).val]

(***************************************************************************)
(* Provision                                                               *)
(***************************************************************************)

\* the default directory name: strings.Join({namespace, name, PVName}, "-")
DefaultSuffix(options) ==
  StringsJoin(<<options.PVC.Namespace, options.PVC.Name, options.PVName>>, <<"-">>)

\* the pvcMetadata Provision builds from the claim
Metadata(options) ==
  [data |-> Map1(NameKey, options.PVC.Name) @@ Map1(NamespaceKey, options.PVC.Namespace),
   labels |-> options.PVC.Labels,
   annotations |-> options.PVC.Annotations]

\* a faulty variant of Suffix: an empty expansion is used as it is
Suffix_NoFallback(options) ==
  LET params == options.StorageClass.Parameters
      customPath == stringParser(Metadata(options), MapGet(params, PathPatternKey))
  IN  IF MapHas(params, PathPatternKey)
      THEN customPath
      ELSE DefaultSuffix(options)

\* the directory name Provision joins to both roots: the expanded pathPattern
\* when there is one and it is not empty, else the default name
Suffix(options) ==
  LET params == options.StorageClass.Parameters
      customPath == stringParser(Metadata(options), MapGet(params, PathPatternKey))
  IN  IF MapHas(params, PathPatternKey) /\ customPath # <<>>
      THEN customPath
      ELSE DefaultSuffix(options)

\* a faulty variant of IdOrDefault: after a parse failure the zero that
\* getIdFromString returned is kept
IdOrDefault_Zero(annotation, default) ==
  IF annotation = <<>> THEN default
  ELSE getIdFromString(annotation).val

\* the uid or gid Provision applies: the annotation when it parses, else the default
IdOrDefault(annotation, default) ==
  IF annotation = <<>> THEN default
  ELSE LET r == getIdFromString(annotation)
       IN  IF r.err THEN default ELSE r.val

NoVolume == [Name |-> <<>>, Server |-> <<>>, Path |-> <<>>]

\* nfsProvisioner.Provision: [pv, err, fs, fullPath, path].  fault names the
\* file system call that the operating system fails, if any.
ProvisionResult(prov, tree, mask, options, fault) ==
  LET fullPath == Join(mountPath, Suffix(options))
      path == Join(prov.path, Suffix(options))
      pvcMode == MapGet(options.PVC.Annotations, ModeKey)
      parsed == getModeFromString(pvcMode)
      mode == IF pvcMode # <<>> THEN parsed.val ELSE prov.defaultMode
      uid == IdOrDefault(MapGet(options.PVC.Annotations, UidKey), prov.defaultUid)
      gid == IdOrDefault(MapGet(options.PVC.Annotations, GidKey), prov.defaultGid)
      made == MkdirAll(tree, fullPath, mode, mask, options.PVName)
      moded == Chmod(made, fullPath, mode)
      owned == Chown(moded, fullPath, uid, gid)
      fail(e, t) == [pv |-> NoVolume, err |-> e, fs |-> t, fullPath |-> fullPath, path |-> path]
  IN  IF options.PVC.Selector
      THEN [pv |-> NoVolume, err |-> "selector", fs |-> tree, fullPath |-> <<>>, path |-> <<>>]
      ELSE IF pvcMode # <<>> /\ parsed.err THEN fail("directoryMode", tree)
      ELSE IF fault = "mkdir" THEN fail("mkdir", tree)
      ELSE IF fault = "chmod" THEN fail("chmod", made)
      ELSE IF fault = "chown" THEN fail("chown", moded)
      ELSE [pv |-> [Name |-> options.PVName, Server |-> prov.server, Path |-> path],
            err |-> "", fs |-> owned, fullPath |-> fullPath, path |-> path]

(***************************************************************************)
(* Delete                                                                  *)
(***************************************************************************)

\* getClassForVolume: [err, class].  api is the answer of the cluster to the
\* Get of the volume's storage class.
getClassForVolume(prov, pv, api) ==
  IF ~prov.client THEN [err |-> "client", class |-> api.class]
  ELSE IF pv.ClassName = <<>> THEN [err |-> "noclass", class |-> api.class]
  ELSE IF api.err THEN [err |-> "lookup", class |-> api.class]
  ELSE [err |-> "", class |-> api.class]

\* the local path Delete works on
OldPath(prov, volume) == Replace1(volume.Path, prov.path, mountPath)

\* the path Delete archives to
ArchivePath(volume) == Join(mountPath, ArchivedPrefix \o Base(volume.Path))

\* a faulty variant of DeletePolicy: archiveOnDelete is looked at before onDelete
DeletePolicy_ArchiveFirst(params) ==
  LET onDelete == MapGet(params, OnDeleteKey)
      archiveBool == ParseBool(MapGet(params, ArchiveOnDeleteKey))
  IN  IF MapHas(params, ArchiveOnDeleteKey) /\ archiveBool.err THEN "parsebool"
      ELSE IF MapHas(params, ArchiveOnDeleteKey) /\ ~archiveBool.val THEN "remove"
      ELSE IF onDelete = DeleteValue THEN "remove"
      ELSE IF onDelete = RetainValue THEN "retain"
      ELSE "archive"

\* what Delete does with an existing directory, from the parameters of the
\* storage class: the onDelete switch, then archiveOnDelete
DeletePolicy(params) ==
  LET onDelete == MapGet(params, OnDeleteKey)
      archiveBool == ParseBool(MapGet(params, ArchiveOnDeleteKey))
  IN  IF onDelete = DeleteValue THEN "remove"
      ELSE IF onDelete = RetainValue THEN "retain"
      ELSE IF MapHas(params, ArchiveOnDeleteKey) /\ archiveBool.err THEN "parsebool"
      ELSE IF MapHas(params, ArchiveOnDeleteKey) /\ ~archiveBool.val THEN "remove"
      ELSE "archive"

\* a faulty variant of DeleteResult: a missing directory is reported as an error
DeleteResult_MissingIsError(prov, tree, volume, api) ==
  LET oldPath == OldPath(prov, volume)
      got == getClassForVolume(prov, volume, api)
      policy == DeletePolicy(got.class.Parameters)
      removed == RemoveAll(tree, oldPath)
      renamed == Rename(tree, oldPath, ArchivePath(volume))
  IN  IF ~Exists(tree, oldPath) THEN [err |-> "ENOENT", fs |-> tree, did |-> "skip"]
      ELSE IF got.err # "" THEN [err |-> got.err, fs |-> tree, did |-> "class"]
      ELSE IF policy = "remove" THEN [err |-> removed.err, fs |-> removed.fs, did |-> "remove"]
      ELSE IF policy = "retain" THEN [err |-> "", fs |-> tree, did |-> "retain"]
      ELSE IF policy = "parsebool" THEN [err |-> "parsebool", fs |-> tree, did |-> "parsebool"]
      ELSE [err |-> renamed.err, fs |-> renamed.fs, did |-> "archive"]

\* nfsProvisioner.Delete: [err, fs, did], did naming the branch taken
DeleteResult(prov, tree, volume, api) ==
  LET oldPath == OldPath(prov, volume)
      got == getClassForVolume(prov, volume, api)
      policy == DeletePolicy(got.class.Parameters)
      removed == RemoveAll(tree, oldPath)
      renamed == Rename(tree, oldPath, ArchivePath(volume))
  IN  IF ~Exists(tree, oldPath) THEN [err |-> "", fs |-> tree, did |-> "skip"]
      ELSE IF got.err # "" THEN [err |-> got.err, fs |-> tree, did |-> "class"]
      ELSE IF policy = "remove" THEN [err |-> removed.err, fs |-> removed.fs, did |-> "remove"]
      ELSE IF policy = "retain" THEN [err |-> "", fs |-> tree, did |-> "retain"]
      ELSE IF policy = "parsebool" THEN [err |-> "parsebool", fs |-> tree, did |-> "parsebool"]
      ELSE [err |-> renamed.err, fs |-> renamed.fs, did |-> "archive"]

(***************************************************************************)
(* Inputs                                                                  *)
(***************************************************************************)

\* the number of volumes provisioned in a run of each specification
MaxVolumes == 2
MaxPolicyVolumes == 1
MaxPathVolumes == 2
MaxAttrVolumes == 2

\* the name the host controller generates for the i-th volume ("pvc-<uid>"
\* in a cluster; all that matters is that the names differ)
PVName(i) == <<"v", Digits[i + 1]>>

ServerName == <<"n","f","s">>
ClassName == <<"s","c">>

NameData == <<"d","a","t","a">>
NsDefault == <<"d","e","f","a","u","l","t">>
NsOther == <<"o","p","s">>
TierKey == <<"t","i","e","r">>
DirKey == <<"d","i","r">>

\* ${.PVC.labels.tier}/${.PVC.name}
PatternTierName ==
  PlaceholderOpen \o LabelsWord \o Dot \o TierKey \o PlaceholderClose \o <<Sep>>
    \o PlaceholderOpen \o NameKey \o PlaceholderClose
\* ${.PVC.labels.tier}
PatternTier == PlaceholderOpen \o LabelsWord \o Dot \o TierKey \o PlaceholderClose
\* ${.PVC.annotations.dir}
PatternDir == PlaceholderOpen \o AnnotationsWord \o Dot \o DirKey \o PlaceholderClose

NoPattern == EmptyMap
\* templates whose results are equal, nested or share a last element
SharingPatterns == { Map1(PathPatternKey, PatternTierName), Map1(PathPatternKey, PatternTier) }
PolicyPatterns == { NoPattern, Map1(PathPatternKey, PatternTierName) }
PathPatterns == SharingPatterns \cup { NoPattern, Map1(PathPatternKey, PatternDir) }

\* claims that differ in what the path templates read
ClaimGold ==
  [Namespace |-> NsDefault, Name |-> NameData, Selector |-> FALSE,
   Labels |-> Map1(TierKey, <<"g","o","l","d">>),
   Annotations |-> Map1(ModeKey, <<"0","7","0","0">>)]
ClaimPlain ==
  [Namespace |-> NsOther, Name |-> NameData, Selector |-> FALSE,
   Labels |-> EmptyMap,
   Annotations |-> Map1(DirKey, <<".",".","/","x">>)]
PathClaims == { ClaimGold, ClaimPlain }

\* claims that differ in selector and in the mode, uid and gid annotations
AttrClaim(selector, annotations) ==
  [Namespace |-> NsDefault, Name |-> NameData, Selector |-> selector,
   Labels |-> Map1(TierKey, <<"g","o","l","d">>), Annotations |-> annotations]
Ids(uid, gid) == Map1(UidKey, uid) @@ Map1(GidKey, gid)
AttrClaims ==
  { AttrClaim(TRUE, Map1(ModeKey, <<"0","7","0","0">>)),
    AttrClaim(FALSE, EmptyMap),
    AttrClaim(FALSE, Map1(ModeKey, <<"0","7","0","0">>)
                       @@ Ids(<<"1","0","0","0">>, <<"2","0","0","0">>)),
    AttrClaim(FALSE, Map1(ModeKey, <<"1","0","0","0">>)),
    AttrClaim(FALSE, Map1(ModeKey, <<"a","b","c">>)),
    AttrClaim(FALSE, Ids(<<"7","0","0","0","0">>, <<"2","0","0","0">>)),
    AttrClaim(FALSE, Ids(<<"1","0","0","0">>, <<"-","1">>)),
    AttrClaim(FALSE, Ids(<<"a","b","c">>, <<"6","5","5","3","6">>)) }
AttrPatterns == { NoPattern }

Faults == { "none", "mkdir", "chmod", "chown" }

\* the storage class parameters Delete reads
OnDeleteChoices ==
  { EmptyMap, Map1(OnDeleteKey, DeleteValue), Map1(OnDeleteKey, RetainValue),
    Map1(OnDeleteKey, <<"k","e","e","p">>) }
ArchiveChoices ==
  { EmptyMap, Map1(ArchiveOnDeleteKey, <<"t","r","u","e">>),
    Map1(ArchiveOnDeleteKey, <<"f","a","l","s","e">>),
    Map1(ArchiveOnDeleteKey, <<"m","a","y","b","e">>) }
Found(params) == [err |-> FALSE, class |-> [Parameters |-> params]]
NotFound == [err |-> TRUE, class |-> [Parameters |-> EmptyMap]]
PolicyLookups == { Found(o @@ a) : o \in OnDeleteChoices, a \in ArchiveChoices } \cup { NotFound }
Lookups ==
  { Found(EmptyMap), Found(Map1(OnDeleteKey, DeleteValue)), Found(Map1(OnDeleteKey, RetainValue)) }
FewLookups == { Found(Map1(OnDeleteKey, DeleteValue)), NotFound }

Env(path, mode, uid, gid) ==
  [NFS_SERVER |-> ServerName, NFS_PATH |-> path, NFS_DEFAULT_MODE |-> mode,
   NFS_DEFAULT_UID |-> uid, NFS_DEFAULT_GID |-> gid]
PlainEnvs == { Env(<<"/","e">>, <<>>, <<>>, <<>>) }
\* export base paths: plain, the root of the server, and with a trailing slash
PathEnvs ==
  { Env(path, <<>>, <<>>, <<>>) : path \in { <<"/","e">>, <<"/">>, <<"/","e","/">> } }
AttrEnvs == { Env(<<"/","e">>, <<"0","7","7","0">>, <<"1","0","0">>, <<"2","0","0">>) }
Umasks == { 18 }

(***************************************************************************)
(* Actions                                                                 *)
(***************************************************************************)

NoCall ==
  [op |-> "none", name |-> <<>>, err |-> "", did |-> "", before |-> <<>>,
   options |-> <<>>, fault |-> "", api |-> <<>>, fullPath |-> <<>>, path |-> <<>>,
   volume |-> <<>>, repeat |-> FALSE, prevErr |-> ""]

\* the tree a fresh process sees: its root and the mounted export
InitialTree ==
  [q \in { Root, mountPath } |->
     [mode |-> MaxMode, uid |-> RootId, gid |-> RootId, ino |-> <<>>]]

InitOver(envs, umasks) ==
  /\ \E env \in envs : ~mainFatal(env) /\ p = main(env)
  /\ umask \in umasks
  /\ fs = InitialTree
  /\ pvs = <<>>
  /\ last = NoCall

\* the host controller calls Provision for a claim with a fresh volume name;
\* a returned volume is stored with the name of its storage class
Provision(options, fault) ==
  \E r \in { ProvisionResult(p, fs, umask, options, fault) } :
      /\ options.PVName \notin DOMAIN pvs
      /\ fs' = r.fs
      /\ pvs' = IF r.err = ""
                THEN pvs @@ Map1(options.PVName,
                                 [Name |-> r.pv.Name, Server |-> r.pv.Server, Path |-> r.pv.Path,
                                  ClassName |-> options.StorageClass.Name,
                                  fullPath |-> r.fullPath, phase |-> "Provisioned"])
                ELSE pvs
      /\ last' = [NoCall EXCEPT !.op = "Provision", !.name = options.PVName, !.err = r.err,
                                !.before = fs, !.options = options, !.fault = fault,
                                !.fullPath = r.fullPath, !.path = r.path, !.volume = r.pv]
      /\ UNCHANGED <<p, umask>>

\* the host controller calls Delete for a volume it holds, again after a
\* failure and possibly again after a success
Delete(name, api) ==
  \E r \in { DeleteResult(p, fs, pvs[name], api) } :
      /\ name \in DOMAIN pvs
      /\ fs' = r.fs
      /\ pvs' = IF r.err = "" THEN [pvs EXCEPT ![name].phase = "Deleted"] ELSE pvs
      /\ last' = [NoCall EXCEPT !.op = "Delete", !.name = name, !.err = r.err, !.did = r.did,
                                !.before = fs, !.api = api, !.volume = pvs[name],
                                !.repeat = (last.op = "Delete" /\ last.name = name /\ last.api = api),
                                !.prevErr = last.err]
      /\ UNCHANGED <<p, umask>>

Options(claim, params, i) ==
  [PVC |-> claim, StorageClass |-> [Name |-> ClassName, Parameters |-> params],
   PVName |-> PVName(i)]

ProvisionOver(claims, patterns, faults, max) ==
  \E claim \in claims, params \in patterns, fault \in faults :
    /\ Cardinality(DOMAIN pvs) < max
    /\ Provision(Options(claim, params, Cardinality(DOMAIN pvs) + 1), fault)

DeleteOver(lookups) ==
  \E name \in DOMAIN pvs, api \in lookups : Delete(name, api)

\* several volumes whose directories may coincide, nest or share a last element
Init == InitOver(PlainEnvs, Umasks)
ProvisionSharing == ProvisionOver(PathClaims, SharingPatterns, {"none"}, MaxVolumes)
DeleteSharing == DeleteOver(Lookups)
Next == ProvisionSharing \/ DeleteSharing
Spec == Init /\ [][Next]_vars

\* one volume under every combination of deletion parameters
ProvisionForPolicy == ProvisionOver({ClaimGold}, PolicyPatterns, {"none"}, MaxPolicyVolumes)
DeleteForPolicy == DeleteOver(PolicyLookups)
NextPolicy == ProvisionForPolicy \/ DeleteForPolicy
SpecPolicy == Init /\ [][NextPolicy]_vars

\* every export base path against every template
InitPaths == InitOver(PathEnvs, Umasks)
ProvisionPaths == ProvisionOver(PathClaims, PathPatterns, {"none"}, MaxPathVolumes)
DeletePaths == DeleteOver(FewLookups)
NextPaths == ProvisionPaths \/ DeletePaths
SpecPaths == InitPaths /\ [][NextPaths]_vars

\* every kind of mode, uid and gid annotation, with file system calls that fail
InitAttrs == InitOver(AttrEnvs, Umasks)
ProvisionAttrs == ProvisionOver(AttrClaims, AttrPatterns, Faults, MaxAttrVolumes)
DeleteAttrs == DeleteOver(FewLookups)
NextAttrs == ProvisionAttrs \/ DeleteAttrs
SpecAttrs == InitAttrs /\ [][NextAttrs]_vars

(***************************************************************************)
(* Properties                                                              *)
(***************************************************************************)

\* the last call was a Delete that found the directory and the storage class
DeletedExisting ==
  /\ last.op = "Delete"
  /\ Exists(last.before, OldPath(p, last.volume))
  /\ ~last.api.err

LastParams == last.api.class.Parameters
LastOnDelete == MapGet(LastParams, OnDeleteKey)
LastArchive == MapGet(LastParams, ArchiveOnDeleteKey)
LastHasArchive == MapHas(LastParams, ArchiveOnDeleteKey)
LastOld == Clean(OldPath(p, last.volume))
LastArchivePath == Join(mountPath, ArchivedPrefix \o Base(last.volume.Path))

\* nothing is left at or beneath directory d
Gone(d) == \A q \in DOMAIN fs : ~IsUnder(d, q)

\* directory d is where and as it was before the last call
Untouched(d) == d \in DOMAIN fs /\ fs[d] = last.before[d]

\* C1: in a Delete that finds the directory and the storage class, onDelete
\* "delete" removes the directory tree and onDelete "retain" changes nothing
\* and succeeds, whatever archiveOnDelete is; with any other onDelete the
\* outcome follows from archiveOnDelete alone: removal when it parses to
\* false, the archive branch when it is absent or parses to true, an error
\* and no change when it does not parse.
C1_OnDeleteTakesPrecedence ==
  DeletedExisting =>
    /\ LastOnDelete = DeleteValue => Gone(LastOld)
    /\ LastOnDelete = RetainValue => fs = last.before /\ last.err = ""
    /\ LastOnDelete \notin { DeleteValue, RetainValue } =>
         IF LastHasArchive /\ LastArchive \in FalseStrings THEN Gone(LastOld)
         ELSE IF ~LastHasArchive \/ LastArchive \in TrueStrings THEN last.did = "archive"
         ELSE last.err # "" /\ fs = last.before

\* onDelete "retain" met archiveOnDelete "false" and the directory stayed
C1_Witness ==
  /\ DeletedExisting
  /\ LastOnDelete = RetainValue
  /\ LastArchive = <<"f","a","l","s","e">>
  /\ last.err = ""
  /\ LastOld \in DOMAIN fs

\* C2: in a Delete that finds the directory and the storage class, with
\* onDelete neither "delete" nor "retain": archiveOnDelete parsing to false
\* removes the directory tree; archiveOnDelete absent or parsing to true
\* leaves no directory at the local path and the directory, as it was, at
\* archived-<basename> under the mount root.
C2_RemovedOrArchived ==
  (DeletedExisting /\ LastOnDelete \notin { DeleteValue, RetainValue }) =>
    IF LastHasArchive /\ LastArchive \in FalseStrings THEN Gone(LastOld)
    ELSE IF ~LastHasArchive \/ LastArchive \in TrueStrings
    THEN /\ LastOld \notin DOMAIN fs
         /\ LastArchivePath \in DOMAIN fs
         /\ fs[LastArchivePath] = last.before[LastOld]
    ELSE TRUE

\* C3: a Delete that repeats the Delete before it (same volume, same answer
\* of the storage class lookup) returns no error.
C3_SecondDeleteNeverFails ==
  (last.op = "Delete" /\ last.repeat) => last.err = ""

\* C3 as amended: a Delete that repeats a Delete which returned no error
\* returns no error.
C3_SecondDeleteAfterSuccess ==
  (last.op = "Delete" /\ last.repeat /\ last.prevErr = "") => last.err = ""

\* a retained directory was deleted a second time: it is still there and
\* both calls succeeded
C3_Witness ==
  /\ last.op = "Delete"
  /\ last.repeat
  /\ last.prevErr = ""
  /\ last.did = "retain"
  /\ last.err = ""

ModeAnnotation == MapGet(last.options.PVC.Annotations, ModeKey)
UidAnnotation == MapGet(last.options.PVC.Annotations, UidKey)
GidAnnotation == MapGet(last.options.PVC.Annotations, GidKey)

\* s is a mode annotation that is not an octal numeral within [0, 0o777]
BadMode(s) == s # <<>> /\ (ParseInt(s, 8).err \/ ParseInt(s, 8).val \notin 0..MaxMode)

\* s is an id annotation that is not a decimal numeral within [0, 65535]
BadId(s) == s # <<>> /\ (ParseInt(s, 10).err \/ ParseInt(s, 10).val \notin 0..MaxId)

\* the id that annotation s asks for, given the default
WantedId(s, default) == IF s = <<>> \/ BadId(s) THEN default ELSE ParseInt(s, 10).val

\* the last call was a Provision that got past the selector and mode checks
ProvisionedPastChecks ==
  /\ last.op = "Provision"
  /\ ~last.options.PVC.Selector
  /\ ~BadMode(ModeAnnotation)

\* C4: a Provision for a claim with a selector, or with a mode annotation
\* that does not parse or is out of range, returns an error, returns no
\* volume and leaves the directory tree as it was.
C4_RejectedWithoutMutation ==
  (last.op = "Provision" /\ (last.options.PVC.Selector \/ BadMode(ModeAnnotation))) =>
    /\ last.err # ""
    /\ fs = last.before
    /\ last.name \notin DOMAIN pvs

\* a mode of 1000 was refused
C4_Witness ==
  /\ last.op = "Provision"
  /\ ~last.options.PVC.Selector
  /\ ModeAnnotation = <<"1","0","0","0">>
  /\ last.err = "directoryMode"
  /\ fs = last.before

\* C5: in a Provision that got past the selector and mode checks, a uid or
\* gid annotation that does not parse or is out of range causes no error:
\* the call fails only when a file system call fails, and otherwise returns
\* the volume with the directory owned by the annotated id where that is
\* valid and by the default where it is not, uid and gid each on its own.
C5_BadIdFallsBack ==
  (ProvisionedPastChecks /\ (BadId(UidAnnotation) \/ BadId(GidAnnotation))) =>
    /\ last.err # "" => last.fault # "none"
    /\ last.fault = "none" =>
         /\ last.err = ""
         /\ last.name \in DOMAIN pvs
         /\ fs[last.fullPath].uid = WantedId(UidAnnotation, p.defaultUid)
         /\ fs[last.fullPath].gid = WantedId(GidAnnotation, p.defaultGid)

\* uid 70000 fell back to the default while gid 2000 was applied
C5_Witness ==
  /\ ProvisionedPastChecks
  /\ UidAnnotation = <<"7","0","0","0","0">>
  /\ GidAnnotation = <<"2","0","0","0">>
  /\ last.err = ""
  /\ fs[last.fullPath].uid = p.defaultUid
  /\ fs[last.fullPath].uid # 0
  /\ fs[last.fullPath].gid = 2000

\* the elements of a relative name, "." and empty elements dropped
NameElems(name) == CleanElems(Split(name, Sep), <<>>, FALSE)

\* C6: in every Provision that computes its paths, the local path is the
\* mount root followed by the elements of the directory name, and the
\* server path is the export base path followed by the same elements, the
\* name being the expanded pathPattern or namespace-name-volume.
C6_SameSuffix ==
  (last.op = "Provision" /\ ~last.options.PVC.Selector) =>
    LET S == NameElems(Suffix(last.options))
    IN  /\ Elems(last.fullPath) = Elems(mountPath) \o S
        /\ Elems(last.path) = Elems(p.path) \o S

\* C7: after a Provision that returned a volume, the directory at the local
\* path exists, its mode is the mode annotation when there is one and the
\* default mode otherwise, its owner is the valid uid and gid annotations
\* and the defaults otherwise, and the volume names the export server and
\* the server path built from the same directory name as the local path.
C7_DirectoryAsRequested ==
  (last.op = "Provision" /\ last.err = "") =>
    /\ last.fullPath \in DOMAIN fs
    /\ fs[last.fullPath].mode =
         (IF ModeAnnotation # <<>> THEN ParseInt(ModeAnnotation, 8).val ELSE p.defaultMode)
    /\ fs[last.fullPath].uid = WantedId(UidAnnotation, p.defaultUid)
    /\ fs[last.fullPath].gid = WantedId(GidAnnotation, p.defaultGid)
    /\ last.name \in DOMAIN pvs
    /\ pvs[last.name].Server = p.server
    /\ pvs[last.name].Path = Join(p.path, Suffix(last.options))
    /\ last.fullPath = Join(mountPath, Suffix(last.options))

\* a directory was made with the default mode, which the umask would have cut
C7_Witness ==
  /\ last.op = "Provision"
  /\ last.err = ""
  /\ ModeAnnotation = <<>>
  /\ fs[last.fullPath].mode = p.defaultMode
  /\ AndNot(p.defaultMode, umask) # p.defaultMode
  /\ fs[last.fullPath].uid = p.defaultUid

LastPattern == MapGet(last.options.StorageClass.Parameters, PathPatternKey)
LastCustomPath == stringParser(Metadata(last.options), LastPattern)

\* C8: in a Provision whose storage class has a pathPattern, an expansion
\* to the empty string makes both paths end in namespace-name-volume and
\* does not fail the call, and any other expansion is joined to both roots
\* in place of that name.
C8_EmptyExpansionFallsBack ==
  (/\ last.op = "Provision"
   /\ ~last.options.PVC.Selector
   /\ MapHas(last.options.StorageClass.Parameters, PathPatternKey)) =>
    LET name == IF LastCustomPath = <<>> THEN DefaultSuffix(last.options) ELSE LastCustomPath
    IN  /\ last.fullPath = Join(mountPath, name)
        /\ last.path = Join(p.path, name)
        /\ LastCustomPath = <<>> => last.err = ""

\* a pattern naming a label the claim does not carry gave the default name
C8_Witness ==
  /\ last.op = "Provision"
  /\ last.options.PVC = ClaimPlain
  /\ LastPattern = PatternTier
  /\ LastCustomPath = <<>>
  /\ last.err = ""
  /\ last.fullPath = mountPath \o <<Sep>> \o DefaultSuffix(last.options)
  /\ last.fullPath \in DOMAIN fs

\* C9: for every volume a Provision returned, the local path Delete derives
\* from the volume's path is the local path Provision made the directory on.
C9_DeleteFindsDirectory ==
  \A v \in DOMAIN pvs : Clean(OldPath(p, pvs[v])) = pvs[v].fullPath

\* the volumes other than the one just deleted that are still provisioned
\* and had their directory before the call
OtherVolumes ==
  { w \in DOMAIN pvs \ { last.name } :
      pvs[w].phase = "Provisioned" /\ pvs[w].fullPath \in DOMAIN last.before }

\* C10: a Delete leaves the directory of every other volume that is still
\* provisioned where and as it was.
C10_OtherDirectoriesUntouched ==
  last.op = "Delete" => \A w \in OtherVolumes : Untouched(pvs[w].fullPath)

\* what holds of the other volumes: a Delete leaves the directory of every
\* other volume that is still provisioned where and as it was when that
\* directory is not, and does not lie beneath, the local path Delete derives
\* for the deleted volume.
OtherDirectoriesOutsideUntouched ==
  last.op = "Delete" =>
    \A w \in OtherVolumes : ~IsUnder(LastOld, pvs[w].fullPath) => Untouched(pvs[w].fullPath)

====
